---------------------------- MODULE Spec2Model ----------------------------
(***************************************************************************)
(* Model of four parts of the rain BitTorrent client:                      *)
(*   - the torrent loop's webseed piece result handler                     *)
(*     (handleWebseedPieceResult) with the piece writers it spawns;        *)
(*   - the peer handshake of rain.go (servePeerConn, connectToPeer,        *)
(*     readHandShake, sendHandShake, communicateWithPeer);                 *)
(*   - Rain.Download of rain.go;                                           *)
(*   - the add operations of the session (session_add.go).                 *)
(* Each part has its own specification over the shared variables; a part   *)
(* that a specification does not drive keeps its initial value.            *)
(*   Spec              the torrent loop                                    *)
(*   SpecHandler       handleWebseedPieceResult called on any torrent state*)
(*   SpecHandShake     sendHandShake / readHandShake on byte streams       *)
(*   SpecConn          one inbound or outbound peer connection             *)
(*   SpecConnFair      SpecConn with fair scheduling of the goroutines     *)
(*   SpecDownload      one call of Download                                *)
(*   SpecDownloadFair  SpecDownload with fair scheduling                   *)
(*   SpecSession       a session and its add operations                    *)
(***************************************************************************)
EXTENDS Integers, Sequences, FiniteSets, TLC

(***************************************************************************)
(* Bounds of the torrent loop model.                                       *)
(***************************************************************************)
NumPieces == 2
NumURLs == 2
MaxDownloads == 2

Pieces == 1..NumPieces
URLs == 1..NumURLs
None == 0

\* Sources of a piece buffer: a webseed URL u is the source u, a peer is Peer.
Peer == NumURLs + 1

\* Length in bytes of the buffer of piece i (scaled; pieces differ in size).
PieceLength(i) == i

\* msg.Error of urldownloader.PieceResult: nil or one of the causes listed
\* in the handler's comment.
ErrNil == "nil"
WebseedErrors == {"Client.Do error", "Unexpected status code", "Response.Body.Read error"}

VARIABLES
  pieces,               \* t.pieces: piece index -> [Writing]
  bytesDownloaded,      \* t.resumerStats.BytesDownloaded
  downloadSpeed,        \* t.downloadSpeed: total of the values passed to Update
  pieceMessagesSusp,    \* t.pieceMessagesC is suspended
  webseedResultSusp,    \* t.webseedPieceResultC is suspended
  webseedPieceResultC,  \* webseed piece results not yet received by the loop
  pieceMessagesC,       \* completed peer pieces not yet received by the loop
  pieceWriters,         \* running piece writer tasks (go pw.Run)
  pieceWriterResultC,   \* results of finished writers not yet received
  panicked,             \* the loop goroutine panicked
  bitfield,             \* pieces the torrent has
  bytesWasted,          \* bytes of buffers that failed verification
  downloading,          \* webseed URL -> piece it has been given, or None
  resultSent,           \* webseed URL -> its downloader has sent its result
  disabled,             \* webseed URL -> marked disabled
  nDownloads,           \* pieces given to a source so far (bounded)
  verifiedBytes,        \* history: total size of the webseed pieces reported Verified
  last,                 \* history: the last message the loop handled
  \* --- handshake round trip ---
  hsInfoHash,           \* ih given to sendHandShake
  hsPeerID,             \* r.peerID of the sender
  wire,                 \* the byte stream the reader will read
  wireSent,             \* the stream is as sendHandShake wrote it
  hsResult,             \* what readHandShake did with the stream, or NoResult
  \* --- one peer connection ---
  connDir,              \* "in" (servePeerConn), "out" (connectToPeer) or "none"
  peerStream,           \* the bytes the peer sends on the connection
  peerEnd,              \* after its bytes the peer closes ("close") or is silent ("stall")
  peerHold,             \* the peer sends its peer_id only after our handshake
  dInfoHash,            \* d.TorrentFile.InfoHash of the download
  localPeerID,          \* r.peerID
  mainPC,               \* position of servePeerConn / connectToPeer
  readerPC,             \* position of the goroutine that runs readHandShake
  conn,                 \* "none", "open" or "closed" (conn.Close was called)
  deadline,             \* "none", "armed" or "cleared"
  infoHashC,            \* chan *infoHash, capacity 1
  errC,                 \* chan error, capacity 1: the values buffered
  errCClosed,           \* close(errC) was called
  readerErr,            \* err of the reader goroutine
  peerID,               \* the peer id returned by readHandShake
  selInfoHash,          \* infoHash received by servePeerConn / connectToPeer
  wireOut,              \* the bytes we wrote on the connection
  sends,                \* calls of sendHandShake
  communicating,        \* communicateWithPeer was entered
  \* --- one call of Rain.Download ---
  dlPC,                 \* position of Download
  dlErr,                \* the value Download returned, or NoErr
  announcing,           \* the goroutine tracker.announce is running
  nAnnounces,           \* announce responses received from responseC (counted up to a bound)
  respPeers,            \* peers of resp.Peers the range loop has not reached yet
  connecting,           \* running connectToPeer goroutines
  dlFinished,           \* the download has finished
  \* --- the session's add operations ---
  ports,                \* ports the allocator has handed out and not got back
  torrents,             \* s.torrents: the ids in the registry
  torrentsByInfoHash,   \* s.torrentsByInfoHash: info hash -> ids, in insertion order
  resumeDB,             \* ids whose resume record s.resumer.Write has stored
  tobj,                 \* the torrent objects created by newTorrent2, by id
  addPC,                \* position of the running add operation
  addFn,                \* "AddTorrent" or "addMagnet"
  addOpt,               \* opt: "nil", "Stopped" or "NotStopped"
  addIH,                \* the info hash of the metainfo / magnet link
  addID,                \* id
  addPort,              \* port
  addErr,               \* err
  addRet,               \* the value the operation returned: [t, err]
  nAdds,                \* add operations called so far (bounded)
  torrentsBefore,       \* history: the registry when the operation was called
  portsBefore           \* history: the allocator when the operation was called

loopVars == <<pieces, bytesDownloaded, downloadSpeed, pieceMessagesSusp,
              webseedResultSusp, webseedPieceResultC, pieceMessagesC,
              pieceWriters, pieceWriterResultC, panicked, bitfield,
              bytesWasted, downloading, resultSent, disabled, nDownloads, verifiedBytes, last>>

hsVars == <<hsInfoHash, hsPeerID, wire, wireSent, hsResult>>

connVars == <<connDir, peerStream, peerEnd, peerHold, dInfoHash, localPeerID,
              mainPC, readerPC, conn, deadline, infoHashC, errC, errCClosed,
              readerErr, peerID, selInfoHash, wireOut, sends, communicating>>

dlVars == <<dlPC, dlErr, announcing, nAnnounces, respPeers, connecting, dlFinished>>

sessVars == <<ports, torrents, torrentsByInfoHash, resumeDB, tobj, addPC, addFn,
              addOpt, addIH, addID, addPort, addErr, addRet, nAdds,
              torrentsBefore, portsBefore>>

vars == <<loopVars, hsVars, connVars, dlVars, sessVars>>

NoEvent == [op |-> "none"]

\* Number of running writer tasks that reference piece i.
RECURSIVE CountWriters(_, _)
CountWriters(ws, i) ==
  IF ws = <<>> THEN 0
  ELSE (IF Head(ws).Index = i THEN 1 ELSE 0) + CountWriters(Tail(ws), i)

\* s without its k-th element.
RemoveAt(s, k) == SubSeq(s, 1, k - 1) \o SubSeq(s, k + 1, Len(s))

\* The state of piece i in the terms of the data model.
PieceState(i) ==
  IF pieces[i].Writing THEN "Writing"
  ELSE IF bitfield[i] THEN "Have"
  ELSE IF \E u \in URLs : downloading[u] = i THEN "Downloading"
  ELSE "Missing"

(***************************************************************************)
(* The state after construction, part by part.                             *)
(***************************************************************************)
NoErr == "nil"
NoResult == [err |-> "none"]

InitLoop ==
  /\ pieces = [i \in Pieces |-> [Writing |-> FALSE]]
  /\ bytesDownloaded = 0
  /\ downloadSpeed = 0
  /\ pieceMessagesSusp = FALSE
  /\ webseedResultSusp = FALSE
  /\ webseedPieceResultC = <<>>
  /\ pieceMessagesC = <<>>
  /\ pieceWriters = <<>>
  /\ pieceWriterResultC = <<>>
  /\ panicked = FALSE
  /\ bitfield = [i \in Pieces |-> FALSE]
  /\ bytesWasted = 0
  /\ downloading = [u \in URLs |-> None]
  /\ resultSent = [u \in URLs |-> FALSE]
  /\ disabled = [u \in URLs |-> FALSE]
  /\ nDownloads = 0
  /\ verifiedBytes = 0
  /\ last = NoEvent

InitHSIdle ==
  /\ hsInfoHash = <<>>
  /\ hsPeerID = <<>>
  /\ wire = <<>>
  /\ wireSent = FALSE
  /\ hsResult = NoResult

InitConnIdle ==
  /\ connDir = "none"
  /\ peerStream = <<>>
  /\ peerEnd = "close"
  /\ peerHold = FALSE
  /\ dInfoHash = <<>>
  /\ localPeerID = <<>>
  /\ mainPC = "done"
  /\ readerPC = "idle"
  /\ conn = "none"
  /\ deadline = "none"
  /\ infoHashC = <<>>
  /\ errC = <<>>
  /\ errCClosed = FALSE
  /\ readerErr = NoErr
  /\ peerID = <<>>
  /\ selInfoHash = <<>>
  /\ wireOut = <<>>
  /\ sends = 0
  /\ communicating = FALSE

InitDownloadIdle ==
  /\ dlPC = "none"
  /\ dlErr = NoErr
  /\ announcing = FALSE
  /\ nAnnounces = 0
  /\ respPeers = 0
  /\ connecting = 0
  /\ dlFinished = FALSE

\* Bounds of the session model: add operations called, ports the allocator
\* owns, distinct info hashes of the torrents added.
MaxAdds == 2
NumPorts == 1
NumAddHashes == 2

Ports == 1..NumPorts
AddHashes == 1..NumAddHashes

NoID == 0
NoPort == 0
NoReturn == [t |-> NoID, err |-> "none"]

\* A session that holds no torrent, no add operation running.
InitSession ==
  /\ ports = {}
  /\ torrents = {}
  /\ torrentsByInfoHash = [ih \in AddHashes |-> <<>>]
  /\ resumeDB = {}
  /\ tobj = <<>>
  /\ addPC = "idle"
  /\ addFn = "none"
  /\ addOpt = "nil"
  /\ addIH = 0
  /\ addID = NoID
  /\ addPort = NoPort
  /\ addErr = NoErr
  /\ addRet = NoReturn
  /\ nAdds = 0
  /\ torrentsBefore = {}
  /\ portsBefore = {}

(***************************************************************************)
(* The handshake of rain.go as byte streams.                               *)
(***************************************************************************)
bitTorrent10pstrLen == 19

\* []byte("BitTorrent protocol")
bitTorrent10pstr ==
  <<66, 105, 116, 84, 111, 114, 114, 101, 110, 116, 32,
    112, 114, 111, 116, 111, 99, 111, 108>>

\* []byte("-RN0001-")
peerIDPrefix == <<45, 82, 78, 48, 48, 48, 49, 45>>

ReservedLen == 8
InfoHashLen == 20
PeerIDLen == 20

\* Bounds: how many info hashes and peer ids the inputs are drawn from.
NumInfoHashes == 2
NumPeerIDs == 2

\* The n-th info hash of the inputs: 20 bytes that differ by position.
InfoHashOf(n) == [i \in 1..InfoHashLen |-> (n * 16 + i) % 256]
InfoHashes == {InfoHashOf(n) : n \in 1..NumInfoHashes}

\* generatePeerID: the prefix followed by random bytes (the n-th draw).
generatePeerID(n) ==
  [i \in 1..PeerIDLen |->
     IF i <= Len(peerIDPrefix) THEN peerIDPrefix[i] ELSE (n * 32 + 3 * i) % 256]
PeerIDs == {generatePeerID(n) : n \in 1..NumPeerIDs}

Zeros(n) == [i \in 1..n |-> 0]

\* Mutant: info_hash and peer_id are written in the wrong order.
sendHandShakeSwapped(ih, id) ==
  <<bitTorrent10pstrLen>> \o bitTorrent10pstr \o Zeros(ReservedLen) \o id \o ih

\* sendHandShake: the bytes binary.Write puts on the connection for the
\* struct {Pstrlen, Pstr, Reserved, InfoHash, PeerID}.
sendHandShake(ih, id) ==
  <<bitTorrent10pstrLen>> \o bitTorrent10pstr \o Zeros(ReservedLen) \o ih \o id

\* Offsets of the fields in the stream read by readHandShake.
PstrEnd == 1 + bitTorrent10pstrLen
ReservedEnd == PstrEnd + ReservedLen
InfoHashEnd == ReservedEnd + InfoHashLen
PeerIDEnd == InfoHashEnd + PeerIDLen

\* Mutant: the reserved bytes are not skipped.
readHandShakeNoReserved(s) ==
  IF Len(s) < 1 THEN [err |-> "read pstrlen", notified |-> <<>>, id |-> <<>>]
  ELSE IF s[1] # bitTorrent10pstrLen
    THEN [err |-> "unexpected pstrlen", notified |-> <<>>, id |-> <<>>]
  ELSE IF Len(s) < PstrEnd THEN [err |-> "read pstr", notified |-> <<>>, id |-> <<>>]
  ELSE IF SubSeq(s, 2, PstrEnd) # bitTorrent10pstr
    THEN [err |-> "unexpected pstr", notified |-> <<>>, id |-> <<>>]
  ELSE IF Len(s) < PstrEnd + InfoHashLen
    THEN [err |-> "read info_hash", notified |-> <<>>, id |-> <<>>]
  ELSE IF Len(s) < PstrEnd + InfoHashLen + PeerIDLen
    THEN [err |-> "read peer_id",
          notified |-> <<SubSeq(s, PstrEnd + 1, PstrEnd + InfoHashLen)>>, id |-> <<>>]
  ELSE [err |-> NoErr,
        notified |-> <<SubSeq(s, PstrEnd + 1, PstrEnd + InfoHashLen)>>,
        id |-> SubSeq(s, PstrEnd + InfoHashLen + 1, PstrEnd + InfoHashLen + PeerIDLen)]

\* Mutant: the protocol string is read but not compared.
readHandShakeNoPstrCheck(s) ==
  IF Len(s) < 1 THEN [err |-> "read pstrlen", notified |-> <<>>, id |-> <<>>]
  ELSE IF s[1] # bitTorrent10pstrLen
    THEN [err |-> "unexpected pstrlen", notified |-> <<>>, id |-> <<>>]
  ELSE IF Len(s) < PstrEnd THEN [err |-> "read pstr", notified |-> <<>>, id |-> <<>>]
  ELSE IF Len(s) < ReservedEnd THEN [err |-> "read reserved", notified |-> <<>>, id |-> <<>>]
  ELSE IF Len(s) < InfoHashEnd
    THEN [err |-> "read info_hash", notified |-> <<>>, id |-> <<>>]
  ELSE IF Len(s) < PeerIDEnd
    THEN [err |-> "read peer_id",
          notified |-> <<SubSeq(s, ReservedEnd + 1, InfoHashEnd)>>, id |-> <<>>]
  ELSE [err |-> NoErr,
        notified |-> <<SubSeq(s, ReservedEnd + 1, InfoHashEnd)>>,
        id |-> SubSeq(s, InfoHashEnd + 1, PeerIDEnd)]

\* readHandShake on a connection that delivers the bytes s and then fails
\* every read (end of stream, or the deadline): the error returned, what was
\* sent to notifyInfoHash, and the peer id returned.
readHandShake(s) ==
  IF Len(s) < 1 THEN [err |-> "read pstrlen", notified |-> <<>>, id |-> <<>>]
  ELSE IF s[1] # bitTorrent10pstrLen
    THEN [err |-> "unexpected pstrlen", notified |-> <<>>, id |-> <<>>]
  ELSE IF Len(s) < PstrEnd THEN [err |-> "read pstr", notified |-> <<>>, id |-> <<>>]
  ELSE IF SubSeq(s, 2, PstrEnd) # bitTorrent10pstr
    THEN [err |-> "unexpected pstr", notified |-> <<>>, id |-> <<>>]
  ELSE IF Len(s) < ReservedEnd THEN [err |-> "read reserved", notified |-> <<>>, id |-> <<>>]
  ELSE IF Len(s) < InfoHashEnd
    THEN [err |-> "read info_hash", notified |-> <<>>, id |-> <<>>]
  ELSE IF Len(s) < PeerIDEnd
    THEN [err |-> "read peer_id",
          notified |-> <<SubSeq(s, ReservedEnd + 1, InfoHashEnd)>>, id |-> <<>>]
  ELSE [err |-> NoErr,
        notified |-> <<SubSeq(s, ReservedEnd + 1, InfoHashEnd)>>,
        id |-> SubSeq(s, InfoHashEnd + 1, PeerIDEnd)]

\* Values a byte of the stream is overwritten with.
CorruptBytes == {0, 19, 255}

InitHandShake ==
  /\ InitLoop
  /\ InitConnIdle
  /\ InitDownloadIdle
  /\ InitSession
  /\ hsInfoHash \in InfoHashes
  /\ hsPeerID \in PeerIDs
  /\ wire = <<>>
  /\ wireSent = FALSE
  /\ hsResult = NoResult

\* The sender writes its handshake.
SendHandShake ==
  /\ wire = <<>>
  /\ hsResult = NoResult
  /\ wire' = sendHandShake(hsInfoHash, hsPeerID)
  /\ wireSent' = TRUE
  /\ UNCHANGED <<hsInfoHash, hsPeerID, hsResult>>
  /\ UNCHANGED <<loopVars, connVars, dlVars, sessVars>>

\* Another sender: the stream differs from a handshake in the byte at k.
CorruptByte(k, b) ==
  /\ wireSent
  /\ hsResult = NoResult
  /\ k \in 1..Len(wire)
  /\ wire[k] # b
  /\ wire' = [wire EXCEPT ![k] = b]
  /\ wireSent' = FALSE
  /\ UNCHANGED <<hsInfoHash, hsPeerID, hsResult>>
  /\ UNCHANGED <<loopVars, connVars, dlVars, sessVars>>

\* Another sender: the stream ends after n bytes.
CutStream(n) ==
  /\ wireSent
  /\ hsResult = NoResult
  /\ n < Len(wire)
  /\ wire' = SubSeq(wire, 1, n)
  /\ wireSent' = FALSE
  /\ UNCHANGED <<hsInfoHash, hsPeerID, hsResult>>
  /\ UNCHANGED <<loopVars, connVars, dlVars, sessVars>>

\* The receiver reads the stream.
ReadHandShake ==
  /\ wire # <<>> \/ ~wireSent
  /\ hsResult = NoResult
  /\ hsResult' = readHandShake(wire)
  /\ UNCHANGED <<hsInfoHash, hsPeerID, wire, wireSent>>
  /\ UNCHANGED <<loopVars, connVars, dlVars, sessVars>>

(***************************************************************************)
(* handleWebseedPieceResult                                                *)
(***************************************************************************)

\* Mutant: only the piece message intake is suspended.
SuspendIntakesPieceMessagesOnly ==
  /\ pieceMessagesSusp' = TRUE
  /\ UNCHANGED webseedResultSusp

\* t.pieceMessagesC.Suspend(); t.webseedPieceResultC.Suspend()
SuspendIntakes ==
  /\ pieceMessagesSusp' = TRUE
  /\ webseedResultSusp' = TRUE

\* pw := piecewriter.New(piece, msg.Downloader, msg.Buffer); go pw.Run(...)
SpawnPieceWriter(index, source, len) ==
  pieceWriters' = Append(pieceWriters, [Index |-> index, Source |-> source, Len |-> len])

\* Mutant: the buffer is given to the speed meter only; bytesDownloaded is
\* left for the Verified event.
UpdateStatsSpeedOnly(msg) ==
  /\ UNCHANGED bytesDownloaded
  /\ downloadSpeed' = downloadSpeed + msg.Len

\* t.resumerStats.BytesDownloaded += len(msg.Buffer.Data)
\* t.downloadSpeed.Update(len(msg.Buffer.Data))
UpdateStats(msg) ==
  /\ bytesDownloaded' = bytesDownloaded + msg.Len
  /\ downloadSpeed' = downloadSpeed + msg.Len

handlerFrame ==
  UNCHANGED <<pieceWriterResultC, bitfield, bytesWasted, downloading, resultSent,
              disabled, nDownloads, verifiedBytes, pieceMessagesC, hsVars, connVars,
              dlVars, sessVars>>

\* Mutant: the writer is spawned without the Writing check and without
\* suspending the intakes.
handleWebseedPieceResultUnguarded(msg) ==
  /\ last' = [op |-> "webseed", msg |-> msg, wasWriting |-> pieces[msg.Index].Writing]
  /\ IF msg.Error # ErrNil
       THEN UNCHANGED <<pieces, bytesDownloaded, downloadSpeed, pieceWriters>>
       ELSE /\ UpdateStats(msg)
            /\ pieces' = [pieces EXCEPT ![msg.Index].Writing = TRUE]
            /\ SpawnPieceWriter(msg.Index, msg.Downloader, msg.Len)
  /\ UNCHANGED <<pieceMessagesSusp, webseedResultSusp, panicked>>
  /\ handlerFrame

\* Mutant: a result for a piece that is being written is dropped silently.
handleWebseedPieceResultDiscard(msg) ==
  /\ last' = [op |-> "webseed", msg |-> msg, wasWriting |-> pieces[msg.Index].Writing]
  /\ IF msg.Error # ErrNil
       THEN UNCHANGED <<pieces, bytesDownloaded, downloadSpeed, pieceMessagesSusp,
                       webseedResultSusp, pieceWriters, panicked>>
       ELSE /\ UpdateStats(msg)
            /\ IF pieces[msg.Index].Writing
                 THEN UNCHANGED <<pieces, pieceMessagesSusp, webseedResultSusp,
                                  pieceWriters, panicked>>
                 ELSE /\ pieces' = [pieces EXCEPT ![msg.Index].Writing = TRUE]
                      /\ SuspendIntakes
                      /\ SpawnPieceWriter(msg.Index, msg.Downloader, msg.Len)
                      /\ UNCHANGED panicked
  /\ handlerFrame

\* Mutant: the buffer of a result is counted before its error is looked at.
handleWebseedPieceResultCountsErrors(msg) ==
  /\ last' = [op |-> "webseed", msg |-> msg, wasWriting |-> pieces[msg.Index].Writing]
  /\ bytesDownloaded' = bytesDownloaded + PieceLength(msg.Index)
  /\ downloadSpeed' = downloadSpeed + PieceLength(msg.Index)
  /\ IF msg.Error # ErrNil
       THEN UNCHANGED <<pieces, pieceMessagesSusp, webseedResultSusp,
                        pieceWriters, panicked>>
       ELSE IF pieces[msg.Index].Writing
              THEN /\ panicked' = TRUE
                   /\ UNCHANGED <<pieces, pieceMessagesSusp, webseedResultSusp,
                                  pieceWriters>>
              ELSE /\ pieces' = [pieces EXCEPT ![msg.Index].Writing = TRUE]
                   /\ SuspendIntakes
                   /\ SpawnPieceWriter(msg.Index, msg.Downloader, msg.Len)
                   /\ UNCHANGED panicked
  /\ handlerFrame

\* func (t *torrent) handleWebseedPieceResult(msg *urldownloader.PieceResult)
handleWebseedPieceResult(msg) ==
  /\ last' = [op |-> "webseed", msg |-> msg, wasWriting |-> pieces[msg.Index].Writing]
  /\ IF msg.Error # ErrNil
       THEN \* t.log.Errorln(...); return (TODO handle error)
            UNCHANGED <<pieces, bytesDownloaded, downloadSpeed, pieceMessagesSusp,
                        webseedResultSusp, pieceWriters, panicked>>
       ELSE /\ UpdateStats(msg)
            /\ IF pieces[msg.Index].Writing
                 THEN \* panic("piece is already writing")
                      /\ panicked' = TRUE
                      /\ UNCHANGED <<pieces, pieceMessagesSusp, webseedResultSusp,
                                     pieceWriters>>
                 ELSE /\ pieces' = [pieces EXCEPT ![msg.Index].Writing = TRUE]
                      /\ SuspendIntakes
                      /\ SpawnPieceWriter(msg.Index, msg.Downloader, msg.Len)
                      /\ UNCHANGED panicked
  /\ handlerFrame

(***************************************************************************)
(* The rest of the torrent loop: the sources that feed the two intakes,    *)
(* the select of the loop, the piece writer and the handling of its        *)
(* result.                                                                 *)
(***************************************************************************)

loopEnvUnchanged ==
  UNCHANGED <<pieces, bytesDownloaded, downloadSpeed, pieceMessagesSusp,
              webseedResultSusp, pieceWriters, pieceWriterResultC, panicked,
              bitfield, bytesWasted, disabled, verifiedBytes, last, hsVars, connVars,
              dlVars, sessVars>>

\* The loop gives piece i to the webseed downloader of URL u.  In endgame a
\* piece that another source is already downloading may be given out again.
AssignWebseed(u, i) ==
  /\ ~panicked
  /\ nDownloads < MaxDownloads
  /\ ~disabled[u]
  /\ downloading[u] = None
  /\ ~bitfield[i]
  /\ downloading' = [downloading EXCEPT ![u] = i]
  /\ resultSent' = [resultSent EXCEPT ![u] = FALSE]
  /\ nDownloads' = nDownloads + 1
  /\ UNCHANGED <<webseedPieceResultC, pieceMessagesC>>
  /\ loopEnvUnchanged

\* The webseed downloader of URL u finishes its request and emits one
\* PieceResult: the piece buffer, or the error.
WebseedDownloaderRun(u, err) ==
  /\ downloading[u] # None
  /\ ~resultSent[u]
  /\ webseedPieceResultC' = Append(webseedPieceResultC,
        [Index |-> downloading[u], Error |-> err, Downloader |-> u,
         Len |-> IF err = ErrNil THEN PieceLength(downloading[u]) ELSE 0])
  /\ resultSent' = [resultSent EXCEPT ![u] = TRUE]
  /\ UNCHANGED <<downloading, nDownloads, pieceMessagesC>>
  /\ loopEnvUnchanged

\* A piece downloader assembles piece i from a peer's blocks.
PeerPieceDownloaded(i) ==
  /\ nDownloads < MaxDownloads
  /\ ~bitfield[i]
  /\ pieceMessagesC' = Append(pieceMessagesC, [Index |-> i, Len |-> PieceLength(i)])
  /\ nDownloads' = nDownloads + 1
  /\ UNCHANGED <<webseedPieceResultC, downloading, resultSent>>
  /\ loopEnvUnchanged

\* select case of the loop: a webseed piece result is received, unless the
\* intake is suspended.
LoopWebseedPieceResult ==
  /\ ~panicked
  /\ ~webseedResultSusp
  /\ webseedPieceResultC # <<>>
  /\ webseedPieceResultC' = Tail(webseedPieceResultC)
  /\ handleWebseedPieceResult(Head(webseedPieceResultC))

\* The loop's handling of a completed peer piece: discarded if the piece is
\* being written, else the piece goes to Writing and a writer is spawned.
handlePieceMessage(msg) ==
  /\ last' = [op |-> "piece", msg |-> msg, wasWriting |-> pieces[msg.Index].Writing]
  /\ IF pieces[msg.Index].Writing
       THEN UNCHANGED <<pieces, pieceMessagesSusp, webseedResultSusp, pieceWriters>>
       ELSE /\ pieces' = [pieces EXCEPT ![msg.Index].Writing = TRUE]
            /\ SuspendIntakes
            /\ SpawnPieceWriter(msg.Index, Peer, msg.Len)
  /\ UNCHANGED <<bytesDownloaded, downloadSpeed, panicked, webseedPieceResultC,
                 pieceWriterResultC, bitfield, bytesWasted, downloading, resultSent,
                 disabled, nDownloads, verifiedBytes, hsVars, connVars,
              dlVars, sessVars>>

\* select case of the loop: a piece message is received, unless the intake
\* is suspended.
LoopPieceMessage ==
  /\ ~panicked
  /\ ~pieceMessagesSusp
  /\ pieceMessagesC # <<>>
  /\ pieceMessagesC' = Tail(pieceMessagesC)
  /\ handlePieceMessage(Head(pieceMessagesC))

\* pw.Run: the k-th running writer verifies the hash, writes the piece and
\* sends Verified (ok) or Failed to pieceWriterResultC; the task ends.
PieceWriterRun(k, ok) ==
  /\ k \in 1..Len(pieceWriters)
  /\ pieceWriterResultC' = Append(pieceWriterResultC,
        [Index |-> pieceWriters[k].Index, Source |-> pieceWriters[k].Source,
         Len |-> pieceWriters[k].Len, Verified |-> ok])
  /\ pieceWriters' = RemoveAt(pieceWriters, k)
  /\ UNCHANGED <<pieces, bytesDownloaded, downloadSpeed, pieceMessagesSusp,
                 webseedResultSusp, webseedPieceResultC, pieceMessagesC, panicked,
                 bitfield, bytesWasted, downloading, resultSent, disabled,
                 nDownloads, verifiedBytes, last, hsVars, connVars,
              dlVars, sessVars>>

\* The loop's handling of a writer's result: the piece leaves Writing, the
\* intakes are resumed, the source is free again; Verified sets the bitfield
\* bit, Failed adds the buffer to bytesWasted.  bytesDownloaded was counted
\* when the buffer arrived and is not counted again.
handlePieceWriteDone(res) ==
  /\ last' = [op |-> "writeDone", msg |-> res, wasWriting |-> pieces[res.Index].Writing]
  /\ pieces' = [pieces EXCEPT ![res.Index].Writing = FALSE]
  /\ pieceMessagesSusp' = FALSE
  /\ webseedResultSusp' = FALSE
  /\ IF res.Verified
       THEN /\ bitfield' = [bitfield EXCEPT ![res.Index] = TRUE]
            /\ verifiedBytes' = verifiedBytes + (IF res.Source \in URLs THEN res.Len ELSE 0)
            /\ UNCHANGED bytesWasted
       ELSE /\ bytesWasted' = bytesWasted + res.Len
            /\ UNCHANGED <<bitfield, verifiedBytes>>
  /\ downloading' = [u \in URLs |-> IF u = res.Source THEN None ELSE downloading[u]]
  /\ resultSent' = [u \in URLs |-> IF u = res.Source THEN FALSE ELSE resultSent[u]]
  /\ UNCHANGED <<bytesDownloaded, downloadSpeed, pieceWriters, panicked,
                 webseedPieceResultC, pieceMessagesC, disabled, nDownloads,
                 hsVars, connVars,
              dlVars, sessVars>>

\* select case of the loop: a piece writer result is received.
LoopPieceWriterResult ==
  /\ ~panicked
  /\ pieceWriterResultC # <<>>
  /\ pieceWriterResultC' = Tail(pieceWriterResultC)
  /\ handlePieceWriteDone(Head(pieceWriterResultC))

NextLoop ==
  \/ \E u \in URLs, i \in Pieces : AssignWebseed(u, i)
  \/ \E u \in URLs, err \in {ErrNil} \cup WebseedErrors : WebseedDownloaderRun(u, err)
  \/ \E i \in Pieces : PeerPieceDownloaded(i)
  \/ LoopWebseedPieceResult
  \/ LoopPieceMessage
  \/ \E k \in 1..Len(pieceWriters), ok \in BOOLEAN : PieceWriterRun(k, ok)
  \/ LoopPieceWriterResult


(***************************************************************************)
(* One peer connection: servePeerConn (inbound) with its reader goroutine, *)
(* connectToPeer (outbound), communicateWithPeer.                          *)
(***************************************************************************)

\* Bound: the peer ids a remote peer's handshake is drawn from.
NumRemoteIDs == 1

\* The streams a remote peer sends: a handshake, a handshake cut after a
\* field, or a handshake with a wrong pstrlen or a wrong protocol string.
CutPoints == {0, 1, PstrEnd, ReservedEnd, InfoHashEnd}
PeerStreams ==
  UNION {LET full == sendHandShake(ih, generatePeerID(NumPeerIDs + n)) IN
           {full, [full EXCEPT ![1] = 0], [full EXCEPT ![2] = 0]}
             \cup {SubSeq(full, 1, c) : c \in CutPoints} :
         ih \in InfoHashes, n \in 1..NumRemoteIDs}

\* acceptor: a connection was accepted and servePeerConn is started on it;
\* or Download starts connectToPeer for a peer of the announce response.
InitConn ==
  /\ InitLoop
  /\ InitHSIdle
  /\ InitDownloadIdle
  /\ InitSession
  /\ connDir \in {"in", "out"}
  /\ peerStream \in PeerStreams
  /\ peerEnd \in {"close", "stall"}
  /\ peerHold \in BOOLEAN
  /\ dInfoHash \in InfoHashes
  /\ localPeerID \in PeerIDs
  /\ mainPC = IF connDir = "in" THEN "setDeadline" ELSE "dial"
  /\ readerPC = "idle"
  /\ conn = IF connDir = "in" THEN "open" ELSE "none"
  /\ deadline = "none"
  /\ infoHashC = <<>>
  /\ errC = <<>>
  /\ errCClosed = FALSE
  /\ readerErr = NoErr
  /\ peerID = <<>>
  /\ selInfoHash = <<>>
  /\ wireOut = <<>>
  /\ sends = 0
  /\ communicating = FALSE

peerUnchanged ==
  UNCHANGED <<connDir, peerStream, peerEnd, peerHold, dInfoHash, localPeerID,
              loopVars, hsVars, dlVars, sessVars>>

\* The bytes of the peer that have arrived on the connection.
Arrived ==
  IF peerHold /\ wireOut = <<>> /\ Len(peerStream) > InfoHashEnd
    THEN SubSeq(peerStream, 1, InfoHashEnd)
    ELSE peerStream

\* The error of a read that finds too few bytes, or "blocked" while the read
\* waits: the connection was closed by us, the peer closed after its last
\* byte, or the deadline (if one is armed) expires.
ShortReadErrors ==
  (IF conn = "closed" THEN {"closed"} ELSE {})
    \cup (IF conn = "open" /\ peerEnd = "close" /\ Arrived = peerStream THEN {"EOF"} ELSE {})
    \cup (IF conn = "open" /\ deadline = "armed" THEN {"timeout"} ELSE {})

\* readHandShake up to the notification of the info_hash: the errors it can
\* return there (several when a read is cut short), or the info_hash seen.
ReadToInfoHash ==
  LET r == readHandShake(Arrived) IN
    IF conn = "closed" THEN [errs |-> {"closed"}, ih |-> <<>>]
    ELSE IF r.notified # <<>> THEN [errs |-> {}, ih |-> r.notified]
    ELSE IF r.err \in {"unexpected pstrlen", "unexpected pstr"}
      THEN [errs |-> {r.err}, ih |-> <<>>]
    ELSE [errs |-> ShortReadErrors, ih |-> <<>>]

\* readHandShake after the notification: io.ReadFull of the peer_id.
ReadPeerID ==
  LET r == readHandShake(Arrived) IN
    IF conn = "closed" THEN [errs |-> {"closed"}, id |-> <<>>]
    ELSE IF r.err = NoErr THEN [errs |-> {}, id |-> r.id]
    ELSE [errs |-> ShortReadErrors, id |-> <<>>]

(* ------------------------- servePeerConn ------------------------------- *)

\* return from servePeerConn: the deferred conn.Close() runs.
ServeReturn ==
  /\ mainPC' = "done"
  /\ conn' = "closed"

\* err := conn.SetDeadline(time.Now().Add(time.Minute)); if err != nil {return}
ServeSetDeadline(ok) ==
  /\ connDir = "in" /\ mainPC = "setDeadline"
  /\ IF ok THEN /\ deadline' = "armed"
                /\ mainPC' = "spawn"
                /\ UNCHANGED conn
           ELSE /\ ServeReturn
                /\ UNCHANGED deadline
  /\ UNCHANGED <<readerPC, infoHashC, errC, errCClosed, readerErr, peerID,
                 selInfoHash, wireOut, sends, communicating>>
  /\ peerUnchanged

\* infoHashC, errC := make(chan, 1); go func() {...}()
ServeSpawnReader ==
  /\ connDir = "in" /\ mainPC = "spawn"
  /\ readerPC' = "read"
  /\ mainPC' = "select"
  /\ UNCHANGED <<conn, deadline, infoHashC, errC, errCClosed, readerErr, peerID,
                 selInfoHash, wireOut, sends, communicating>>
  /\ peerUnchanged

\* goroutine: readHandShake reads pstrlen, pstr, reserved and info_hash and
\* sends the info_hash to notifyInfoHash, or returns an error.
ReaderReadToInfoHash ==
  /\ connDir = "in" /\ readerPC = "read"
  /\ \/ /\ ReadToInfoHash.ih # <<>>
        /\ infoHashC' = Append(infoHashC, ReadToInfoHash.ih[1])
        /\ readerPC' = "peerID"
        /\ UNCHANGED readerErr
     \/ \E e \in ReadToInfoHash.errs :
          /\ readerErr' = e
          /\ readerPC' = "sendErr"
          /\ UNCHANGED infoHashC
  /\ UNCHANGED <<mainPC, conn, deadline, errC, errCClosed, peerID, selInfoHash,
                 wireOut, sends, communicating>>
  /\ peerUnchanged

\* goroutine: readHandShake reads the peer_id and returns.
ReaderReadPeerID ==
  /\ connDir = "in" /\ readerPC = "peerID"
  /\ \/ /\ ReadPeerID.id # <<>>
        /\ peerID' = ReadPeerID.id
        /\ readerPC' = "closeErrC"
        /\ UNCHANGED readerErr
     \/ \E e \in ReadPeerID.errs :
          /\ readerErr' = e
          /\ readerPC' = "sendErr"
          /\ UNCHANGED peerID
  /\ UNCHANGED <<mainPC, conn, deadline, infoHashC, errC, errCClosed, selInfoHash,
                 wireOut, sends, communicating>>
  /\ peerUnchanged

\* Mutant: errC has no buffer, the send waits for servePeerConn to receive.
ReaderSendErrUnbuffered ==
  /\ connDir = "in" /\ readerPC = "sendErr"
  /\ mainPC \in {"select", "recvErr"}
  /\ errC' = Append(errC, readerErr)
  /\ readerPC' = "closeErrC"
  /\ UNCHANGED <<mainPC, conn, deadline, infoHashC, errCClosed, readerErr, peerID,
                 selInfoHash, wireOut, sends, communicating>>
  /\ peerUnchanged

\* goroutine: if err != nil { errC <- err }  (blocks while errC is full)
ReaderSendErr ==
  /\ connDir = "in" /\ readerPC = "sendErr"
  /\ Len(errC) < 1
  /\ errC' = Append(errC, readerErr)
  /\ readerPC' = "closeErrC"
  /\ UNCHANGED <<mainPC, conn, deadline, infoHashC, errCClosed, readerErr, peerID,
                 selInfoHash, wireOut, sends, communicating>>
  /\ peerUnchanged

\* goroutine: close(errC); the goroutine ends.
ReaderCloseErrC ==
  /\ connDir = "in" /\ readerPC = "closeErrC"
  /\ errCClosed' = TRUE
  /\ readerPC' = "done"
  /\ UNCHANGED <<mainPC, conn, deadline, infoHashC, errC, readerErr, peerID,
                 selInfoHash, wireOut, sends, communicating>>
  /\ peerUnchanged

\* select, case infoHash := <-infoHashC.  When errC is ready too, select
\* takes either case.
ServeSelectInfoHash ==
  /\ connDir = "in" /\ mainPC = "select"
  /\ infoHashC # <<>>
  /\ selInfoHash' = Head(infoHashC)
  /\ infoHashC' = Tail(infoHashC)
  /\ mainPC' = "send"
  /\ UNCHANGED <<readerPC, conn, deadline, errC, errCClosed, readerErr, peerID,
                 wireOut, sends, communicating>>
  /\ peerUnchanged

\* select, case <-errC: return.  A receive from errC is ready when a value
\* is buffered or the channel is closed.
ServeSelectErr ==
  /\ connDir = "in" /\ mainPC = "select"
  /\ errC # <<>> \/ errCClosed
  /\ errC' = IF errC # <<>> THEN Tail(errC) ELSE errC
  /\ ServeReturn
  /\ UNCHANGED <<readerPC, deadline, infoHashC, errCClosed, readerErr, peerID,
                 selInfoHash, wireOut, sends, communicating>>
  /\ peerUnchanged

\* err = r.sendHandShake(conn, infoHash); if err != nil {return}
ServeSendHandShake(ok) ==
  /\ connDir = "in" /\ mainPC = "send"
  /\ sends' = sends + 1
  /\ IF ok THEN /\ wireOut' = wireOut \o sendHandShake(selInfoHash, localPeerID)
                /\ mainPC' = "recvErr"
                /\ UNCHANGED conn
           ELSE /\ ServeReturn
                /\ UNCHANGED wireOut
  /\ UNCHANGED <<readerPC, deadline, infoHashC, errC, errCClosed, readerErr, peerID,
                 selInfoHash, communicating>>
  /\ peerUnchanged

\* err = <-errC; if err != nil {return}; r.communicateWithPeer(conn)
ServeRecvErr ==
  /\ connDir = "in" /\ mainPC = "recvErr"
  /\ errC # <<>> \/ errCClosed
  /\ IF errC # <<>>
       THEN /\ errC' = Tail(errC)
            /\ ServeReturn
       ELSE /\ mainPC' = "communicate"
            /\ UNCHANGED <<errC, conn>>
  /\ UNCHANGED <<readerPC, deadline, infoHashC, errCClosed, readerErr, peerID,
                 selInfoHash, wireOut, sends, communicating>>
  /\ peerUnchanged

(* ----------------------- communicateWithPeer --------------------------- *)

\* communicateWithPeer: err := conn.SetDeadline(time.Time{}); it returns in
\* both cases, and so does its caller: servePeerConn closes the connection.
CommunicateWithPeer(ok) ==
  /\ mainPC = "communicate"
  /\ communicating' = TRUE
  /\ deadline' = IF ok THEN "cleared" ELSE deadline
  /\ mainPC' = "done"
  /\ conn' = IF connDir = "in" THEN "closed" ELSE conn
  /\ UNCHANGED <<readerPC, infoHashC, errC, errCClosed, readerErr, peerID,
                 selInfoHash, wireOut, sends>>
  /\ peerUnchanged

(* --------------------------- connectToPeer ----------------------------- *)

\* conn, err := net.DialTCP(...); if err != nil {return}
ConnectDial(ok) ==
  /\ connDir = "out" /\ mainPC = "dial"
  /\ IF ok THEN conn' = "open" /\ mainPC' = "send"
           ELSE mainPC' = "done" /\ UNCHANGED conn
  /\ UNCHANGED <<readerPC, deadline, infoHashC, errC, errCClosed, readerErr, peerID,
                 selInfoHash, wireOut, sends, communicating>>
  /\ peerUnchanged

\* err = r.sendHandShake(conn, &d.TorrentFile.InfoHash); if err != nil {return}
ConnectSendHandShake(ok) ==
  /\ connDir = "out" /\ mainPC = "send"
  /\ sends' = sends + 1
  /\ IF ok THEN /\ wireOut' = wireOut \o sendHandShake(dInfoHash, localPeerID)
                /\ mainPC' = "read"
           ELSE /\ mainPC' = "done"
                /\ UNCHANGED wireOut
  /\ UNCHANGED <<readerPC, conn, deadline, infoHashC, errC, errCClosed, readerErr,
                 peerID, selInfoHash, communicating>>
  /\ peerUnchanged

\* _, err = r.readHandShake(conn, infoHashC), up to the notification.
ConnectReadToInfoHash ==
  /\ connDir = "out" /\ mainPC = "read"
  /\ \/ /\ ReadToInfoHash.ih # <<>>
        /\ infoHashC' = Append(infoHashC, ReadToInfoHash.ih[1])
        /\ mainPC' = "peerID"
        /\ UNCHANGED readerErr
     \/ \E e \in ReadToInfoHash.errs :
          /\ readerErr' = e
          /\ mainPC' = "done"
          /\ UNCHANGED infoHashC
  /\ UNCHANGED <<readerPC, conn, deadline, errC, errCClosed, peerID, selInfoHash,
                 wireOut, sends, communicating>>
  /\ peerUnchanged

\* readHandShake reads the peer_id; if err != nil {return}
ConnectReadPeerID ==
  /\ connDir = "out" /\ mainPC = "peerID"
  /\ \/ /\ ReadPeerID.id # <<>>
        /\ peerID' = ReadPeerID.id
        /\ mainPC' = "check"
        /\ UNCHANGED readerErr
     \/ \E e \in ReadPeerID.errs :
          /\ readerErr' = e
          /\ mainPC' = "done"
          /\ UNCHANGED peerID
  /\ UNCHANGED <<readerPC, conn, deadline, infoHashC, errC, errCClosed, selInfoHash,
                 wireOut, sends, communicating>>
  /\ peerUnchanged

\* if *<-infoHashC != d.TorrentFile.InfoHash {return}; communicateWithPeer
ConnectCheckInfoHash ==
  /\ connDir = "out" /\ mainPC = "check"
  /\ infoHashC # <<>>
  /\ selInfoHash' = Head(infoHashC)
  /\ infoHashC' = Tail(infoHashC)
  /\ mainPC' = IF Head(infoHashC) # dInfoHash THEN "done" ELSE "communicate"
  /\ UNCHANGED <<readerPC, conn, deadline, errC, errCClosed, readerErr, peerID,
                 wireOut, sends, communicating>>
  /\ peerUnchanged

NextConn ==
  \/ \E ok \in BOOLEAN : ServeSetDeadline(ok)
  \/ ServeSpawnReader
  \/ ReaderReadToInfoHash
  \/ ReaderReadPeerID
  \/ ReaderSendErr
  \/ ReaderCloseErrC
  \/ ServeSelectInfoHash
  \/ ServeSelectErr
  \/ \E ok \in BOOLEAN : ServeSendHandShake(ok)
  \/ ServeRecvErr
  \/ \E ok \in BOOLEAN : CommunicateWithPeer(ok)
  \/ \E ok \in BOOLEAN : ConnectDial(ok)
  \/ \E ok \in BOOLEAN : ConnectSendHandShake(ok)
  \/ ConnectReadToInfoHash
  \/ ConnectReadPeerID
  \/ ConnectCheckInfoHash

SpecConn == InitConn /\ [][NextConn]_vars

\* The steps of the reader goroutine and of servePeerConn / connectToPeer.
ReaderStep ==
  ReaderReadToInfoHash \/ ReaderReadPeerID \/ ReaderSendErr \/ ReaderCloseErrC

\* The Go scheduler runs a goroutine that can take a step; a read on a
\* connection with a deadline returns.
SpecConnFair ==
  SpecConn /\ WF_vars(ReaderStep) /\ WF_vars(NextConn /\ ~ReaderStep)

(***************************************************************************)
(* The specifications of the torrent loop and of the handshake round trip. *)
(***************************************************************************)
Init == InitLoop /\ InitHSIdle /\ InitConnIdle /\ InitDownloadIdle /\ InitSession

Next == NextLoop

Spec == Init /\ [][Next]_vars

NextHandShake ==
  \/ SendHandShake
  \/ \E k \in 1..PeerIDEnd, b \in CorruptBytes : CorruptByte(k, b)
  \/ \E n \in 0..PeerIDEnd : CutStream(n)
  \/ ReadHandShake

SpecHandShake == InitHandShake /\ [][NextHandShake]_vars

(***************************************************************************)
(* handleWebseedPieceResult as a method: the torrent it is called on and   *)
(* the message it is called with are drawn from bounded sets, and the      *)
(* method is called once, whatever the state of the intakes.               *)
(***************************************************************************)
MaxInitBytes == 1

PieceResults ==
  {[Index |-> i, Error |-> e, Downloader |-> u,
    Len |-> IF e = ErrNil THEN PieceLength(i) ELSE 0] :
     i \in Pieces, e \in {ErrNil} \cup WebseedErrors, u \in URLs}

\* One running writer for each of the pieces 1..n of ps that is Writing.
RECURSIVE WritersFor(_, _)
WritersFor(ps, n) ==
  IF n = 0 THEN <<>>
  ELSE WritersFor(ps, n - 1) \o
       (IF ps[n].Writing
          THEN <<[Index |-> n, Source |-> Peer, Len |-> PieceLength(n)]>>
          ELSE <<>>)

InitHandler ==
  /\ pieces \in [Pieces -> {[Writing |-> b] : b \in BOOLEAN}]
  /\ bytesDownloaded \in 0..MaxInitBytes
  /\ downloadSpeed = bytesDownloaded
  /\ pieceMessagesSusp \in BOOLEAN
  /\ webseedResultSusp \in BOOLEAN
  /\ webseedPieceResultC \in {<<m>> : m \in PieceResults}
  /\ pieceMessagesC = <<>>
  /\ pieceWriters = WritersFor(pieces, NumPieces)
  /\ pieceWriterResultC = <<>>
  /\ panicked = FALSE
  /\ bitfield = [i \in Pieces |-> FALSE]
  /\ bytesWasted = 0
  /\ downloading = [u \in URLs |-> IF u = webseedPieceResultC[1].Downloader
                                     THEN webseedPieceResultC[1].Index ELSE None]
  /\ resultSent = [u \in URLs |-> u = webseedPieceResultC[1].Downloader]
  /\ disabled = [u \in URLs |-> FALSE]
  /\ nDownloads = 1
  /\ verifiedBytes = 0
  /\ last = NoEvent
  /\ InitHSIdle
  /\ InitConnIdle
  /\ InitDownloadIdle
  /\ InitSession

HandlerCall ==
  /\ ~panicked
  /\ webseedPieceResultC # <<>>
  /\ webseedPieceResultC' = Tail(webseedPieceResultC)
  /\ handleWebseedPieceResult(Head(webseedPieceResultC))

NextHandler == HandlerCall

SpecHandler == InitHandler /\ [][NextHandler]_vars

(***************************************************************************)
(* Properties of the torrent loop.                                         *)
(***************************************************************************)

\* The loop has just handled a webseed piece result without error.
HandledWebseedSuccess == last.op = "webseed" /\ last.msg.Error = ErrNil

\* The loop has just handled a webseed piece result that carries an error.
HandledWebseedError == last.op = "webseed" /\ last.msg.Error # ErrNil

\* Some writer task is running or its result has not been handled yet.
WriterOutstanding(i) ==
  \/ CountWriters(pieceWriters, i) > 0
  \/ CountWriters(pieceWriterResultC, i) > 0

\* C1: for every piece index i at most one piece writer task for i is
\* running at any instant, and a running writer's piece is in Writing state.
C1_AtMostOneWriterPerPiece ==
  \A i \in Pieces :
    /\ CountWriters(pieceWriters, i) <= 1
    /\ CountWriters(pieceWriters, i) = 1 => pieces[i].Writing

\* C1 witness: a writer for piece i is running while a second successful
\* webseed result for the same piece i waits in the intake.
C1_Witness ==
  \E i \in Pieces :
    /\ CountWriters(pieceWriters, i) = 1
    /\ \E k \in 1..Len(webseedPieceResultC) :
         webseedPieceResultC[k].Index = i /\ webseedPieceResultC[k].Error = ErrNil

C3_Original ==
  \A i \in Pieces :
    WriterOutstanding(i) =>
      /\ (webseedPieceResultC # <<>> /\ Head(webseedPieceResultC).Index # i)
           => ~webseedResultSusp
      /\ (pieceMessagesC # <<>> /\ Head(pieceMessagesC).Index # i)
           => ~pieceMessagesSusp

\* C3 (amended): while a writer is outstanding both intakes of the torrent
\* are suspended, whatever the piece of the waiting result, so at most one
\* piece of the torrent is Writing and at most one writer exists.
C3_OneWritePerTorrent ==
  /\ (\E i \in Pieces : WriterOutstanding(i) \/ pieces[i].Writing)
       => (pieceMessagesSusp /\ webseedResultSusp)
  /\ Cardinality({i \in Pieces : pieces[i].Writing}) <= 1
  /\ Len(pieceWriters) + Len(pieceWriterResultC) <= 1

\* C3 witness: the writer of piece i is outstanding and a successful result
\* for another piece j waits in the suspended webseed intake.
C3_Witness ==
  \E i \in Pieces :
    /\ WriterOutstanding(i)
    /\ webseedPieceResultC # <<>>
    /\ Head(webseedPieceResultC).Index # i
    /\ Head(webseedPieceResultC).Error = ErrNil
    /\ webseedResultSusp

\* C4: after a webseed piece result carrying an error has been handled, the
\* piece is in Missing state.
C4_ErrorReturnsPieceToMissing ==
  HandledWebseedError => PieceState(last.msg.Index) = "Missing"

\* C5: after a webseed piece result carrying an error has been handled, the
\* URL that produced it is marked disabled.
C5_ErrorDisablesURL ==
  HandledWebseedError => disabled[last.msg.Downloader]

\* C6 (as stated): bytesDownloaded equals the total size of the webseed
\* pieces for which a Verified event occurred.
C6_Original ==
  bytesDownloaded = verifiedBytes

\* C6 (amended): bytesDownloaded is increased by the length of the buffer
\* when a successful webseed piece result is handled, before the writer has
\* verified the hash; an error result adds nothing.
C6_CountedOnArrival ==
  [][(/\ webseedPieceResultC # <<>>
      /\ webseedPieceResultC' = Tail(webseedPieceResultC))
     => bytesDownloaded' = bytesDownloaded +
          (IF Head(webseedPieceResultC).Error = ErrNil
             THEN PieceLength(Head(webseedPieceResultC).Index) ELSE 0)]_vars

\* C6 witness: a webseed buffer whose writer has not finished is already
\* part of bytesDownloaded, and nothing has been Verified.
C6_Witness ==
  /\ HandledWebseedSuccess
  /\ verifiedBytes = 0
  /\ bytesDownloaded = PieceLength(last.msg.Index)
  /\ CountWriters(pieceWriters, last.msg.Index) = 1

(***************************************************************************)
(* Properties of the handshake.                                            *)
(***************************************************************************)

\* C9: the stream written by sendHandShake(ih) is pstrlen=19, the protocol
\* string, 8 reserved bytes, ih and the local peer id, in that order;
\* readHandShake of that stream succeeds, notifies exactly ih and returns
\* exactly the peer id; a stream whose first byte is not 19 or whose
\* protocol string differs is rejected with an error and notifies nothing.
C9_HandShakeRoundTrip ==
  /\ wireSent =>
       /\ Len(wire) = 68
       /\ wire[1] = 19
       /\ SubSeq(wire, 2, 20) = bitTorrent10pstr
       /\ SubSeq(wire, 21, 28) = <<0, 0, 0, 0, 0, 0, 0, 0>>
       /\ SubSeq(wire, 29, 48) = hsInfoHash
       /\ SubSeq(wire, 49, 68) = hsPeerID
  /\ (wireSent /\ hsResult # NoResult) =>
       /\ hsResult.err = NoErr
       /\ hsResult.notified = <<hsInfoHash>>
       /\ hsResult.id = hsPeerID
  /\ (/\ hsResult # NoResult
      /\ \/ (Len(wire) >= 1 /\ wire[1] # 19)
         \/ (Len(wire) >= 20 /\ SubSeq(wire, 2, 20) # bitTorrent10pstr)) =>
       /\ hsResult.err # NoErr
       /\ hsResult.notified = <<>>

\* C9 witness: the stream written by sendHandShake has been read.
C9_Witness ==
  /\ wireSent
  /\ hsResult # NoResult
  /\ hsResult.notified = <<hsInfoHash>>

\* C9 second witness: a stream with a wrong protocol string has been read.
C9_WitnessRejected ==
  /\ hsResult # NoResult
  /\ Len(wire) = 68
  /\ wire[1] = 19
  /\ SubSeq(wire, 2, 20) # bitTorrent10pstr
  /\ hsResult.err = "unexpected pstr"


(***************************************************************************)
(* Properties of a peer connection.                                        *)
(***************************************************************************)

\* The handshake reader has put the peer's info_hash into infoHashC.
InfoHashSeen == infoHashC # <<>> \/ selInfoHash # <<>>

\* readHandShake is reading from the connection.
ReadingHandShake ==
  \/ connDir = "in" /\ readerPC \in {"read", "peerID"} /\ conn = "open"
  \/ connDir = "out" /\ mainPC \in {"read", "peerID"}

\* C7: on an outbound connection, when the info_hash of the handshake
\* received from the peer differs from the info_hash of the download, the
\* socket is closed and communicateWithPeer is not entered.
C7_MismatchDropsConnection ==
  (/\ connDir = "out"
   /\ mainPC = "done"
   /\ selInfoHash # <<>>
   /\ selInfoHash # dInfoHash)
  => (conn = "closed" /\ ~communicating)

\* C8: on every peer connection, inbound and outbound, the handshake
\* deadline is armed while handshake bytes are read; a connection whose
\* handshake read ran into the deadline is closed; the deadline is cleared
\* only once communicateWithPeer was entered.
C8_HandshakeDeadline ==
  /\ ReadingHandShake => deadline = "armed"
  /\ (mainPC = "done" /\ readerErr = "timeout") => conn = "closed"
  /\ deadline = "cleared" => communicating

\* C10: on an inbound connection, when servePeerConn has returned and the
\* reader had seen the peer's info_hash, our handshake was sent
\* (sendHandShake was called).
C10_ReplyOnInfoHash ==
  (connDir = "in" /\ mainPC = "done" /\ InfoHashSeen) => sends >= 1

(***************************************************************************)
(* Rain.Download (rain.go).  The call parses the torrent file, allocates   *)
(* the files, creates and dials the tracker, starts the announce goroutine *)
(* and then serves responseC in a loop: every announce response starts one *)
(* connectToPeer goroutine per peer.                                       *)
(***************************************************************************)
MaxAnnounces == 3
MaxPeers == 3

dlUnchanged == UNCHANGED <<loopVars, hsVars, connVars, sessVars>>

InitDownload ==
  /\ dlPC = "NewTorrentFile"
  /\ dlErr = NoErr
  /\ announcing = FALSE
  /\ nAnnounces = 0
  /\ respPeers = 0
  /\ connecting = 0
  /\ dlFinished = FALSE
  /\ InitLoop
  /\ InitHSIdle
  /\ InitConnIdle
  /\ InitSession

\* A step of Download that can fail: on failure Download returns the error.
DownloadStep(at, ok, next) ==
  /\ dlPC = at
  /\ IF ok THEN dlPC' = next /\ UNCHANGED dlErr
           ELSE dlPC' = "returned" /\ dlErr' = at
  /\ UNCHANGED <<announcing, nAnnounces, respPeers, connecting, dlFinished>>
  /\ dlUnchanged

DownloadNewTorrentFile(ok) == DownloadStep("NewTorrentFile", ok, "allocate")

DownloadAllocate(ok) == DownloadStep("allocate", ok, "NewTracker")

DownloadNewTracker(ok) == DownloadStep("NewTracker", ok, "Dial")

DownloadDial(ok) == DownloadStep("Dial", ok, "announce")

\* responseC := make(chan *AnnounceResponse); go tracker.announce(...)
DownloadSpawnAnnounce ==
  /\ dlPC = "announce"
  /\ announcing' = TRUE
  /\ dlPC' = "select"
  /\ UNCHANGED <<dlErr, nAnnounces, respPeers, connecting, dlFinished>>
  /\ dlUnchanged

\* The most connectToPeer goroutines that run at a time.
MaxConnecting == MaxAnnounces * MaxPeers

\* case resp := <-responseC: the announce goroutine hands over a response
\* that lists n peers (the channel is unbuffered).  The tracker is announced
\* to again and again: responses keep coming, nAnnounces counts the first
\* MaxAnnounces of them.
DownloadRecvResponse(n) ==
  /\ dlPC = "select"
  /\ announcing
  /\ connecting + n <= MaxConnecting
  /\ nAnnounces' = IF nAnnounces < MaxAnnounces THEN nAnnounces + 1 ELSE nAnnounces
  /\ respPeers' = n
  /\ dlPC' = IF n = 0 THEN "select" ELSE "range"
  /\ UNCHANGED <<dlErr, announcing, connecting, dlFinished>>
  /\ dlUnchanged

\* for _, p := range resp.Peers { go r.connectToPeer(p, download) }
DownloadConnectToPeer ==
  /\ dlPC = "range"
  /\ respPeers > 0
  /\ connecting' = connecting + 1
  /\ respPeers' = respPeers - 1
  /\ dlPC' = IF respPeers = 1 THEN "select" ELSE "range"
  /\ UNCHANGED <<dlErr, announcing, nAnnounces, dlFinished>>
  /\ dlUnchanged

\* A connectToPeer goroutine returns.
ConnectToPeerReturns ==
  /\ connecting > 0
  /\ connecting' = connecting - 1
  /\ UNCHANGED <<dlPC, dlErr, announcing, nAnnounces, respPeers, dlFinished>>
  /\ dlUnchanged

\* The download started by the call finishes.
DownloadFinishes ==
  /\ dlPC \in {"select", "range"}
  /\ ~dlFinished
  /\ dlFinished' = TRUE
  /\ UNCHANGED <<dlPC, dlErr, announcing, nAnnounces, respPeers, connecting>>
  /\ dlUnchanged

NextDownload ==
  \/ \E ok \in BOOLEAN : DownloadNewTorrentFile(ok)
  \/ \E ok \in BOOLEAN : DownloadAllocate(ok)
  \/ \E ok \in BOOLEAN : DownloadNewTracker(ok)
  \/ \E ok \in BOOLEAN : DownloadDial(ok)
  \/ DownloadSpawnAnnounce
  \/ \E n \in 0..MaxPeers : DownloadRecvResponse(n)
  \/ DownloadConnectToPeer
  \/ ConnectToPeerReturns
  \/ DownloadFinishes

SpecDownload == InitDownload /\ [][NextDownload]_vars

\* The Go scheduler runs every goroutine that can take a step.
SpecDownloadFair == SpecDownload /\ WF_vars(NextDownload)

\* C11: once the download has finished, the call to Download eventually
\* returns to its caller.
C11_DownloadReturns == dlFinished ~> (dlPC = "returned")

\* The loop of Download has no exit: a call that reached it stays in it.
DownloadLoopNeverLeft ==
  [][(dlPC \in {"select", "range"}) => (dlPC' \in {"select", "range"})]_vars

(***************************************************************************)
(* The add operations of the session (session_add.go): AddTorrent with     *)
(* addTorrentStopped, addMagnet, add and insertTorrent.  One operation     *)
(* runs at a time.  The port allocator (getPort, releasePort), the resume  *)
(* database and the torrent's Start and Close are collaborators: a port is *)
(* in `ports` from getPort to releasePort, Start and Close are recorded on *)
(* the torrent object.                                                     *)
(***************************************************************************)
AddFns == {"AddTorrent", "addMagnet"}
AddOpts == {"nil", "Stopped", "NotStopped"}

sessUnchanged == UNCHANGED <<loopVars, hsVars, connVars, dlVars>>

\* if opt == nil || !opt.Stopped
ShouldStartAlways(opt) == TRUE

ShouldStart(opt) == opt = "nil" \/ opt # "Stopped"

\* s.getPort(): a port nobody holds, if there is one.
FreePorts == Ports \ ports

\* s.releasePort(port)
releasePort(ps, port) == ps \ {port}

\* t.Close()
Close(objs, id) == [objs EXCEPT ![id].closed = TRUE]

\* The operation is called.
AddCall(fn, opt, ih) ==
  /\ addPC \in {"idle", "returned"}
  /\ nAdds < MaxAdds
  /\ nAdds' = nAdds + 1
  /\ addFn' = fn
  /\ addOpt' = opt
  /\ addIH' = ih
  /\ addID' = NoID
  /\ addPort' = NoPort
  /\ addErr' = NoErr
  /\ addRet' = NoReturn
  /\ addPC' = "parse"
  /\ torrentsBefore' = torrents
  /\ portsBefore' = ports
  /\ UNCHANGED <<ports, torrents, torrentsByInfoHash, resumeDB, tobj>>
  /\ sessUnchanged

\* return nil, err from addTorrentStopped or addMagnet before any closure
\* was deferred; AddTorrent passes the error on.
ReturnError(e) ==
  /\ addErr' = e
  /\ addRet' = [t |-> NoID, err |-> e]
  /\ addPC' = "returned"

\* mi, err := metainfo.New(r)  /  ma, err := magnet.New(link)
AddParse(ok) ==
  /\ addPC = "parse"
  /\ IF ok THEN addPC' = "getPort" /\ UNCHANGED <<addErr, addRet>>
           ELSE ReturnError("parse error")
  /\ UNCHANGED <<ports, torrents, torrentsByInfoHash, resumeDB, tobj, addFn,
                 addOpt, addIH, addID, addPort, nAdds, torrentsBefore, portsBefore>>
  /\ sessUnchanged

\* add: port, err = s.getPort()
AddGetPort ==
  /\ addPC = "getPort"
  /\ IF FreePorts = {}
       THEN /\ ReturnError("no free port")
            /\ UNCHANGED <<ports, addPort>>
       ELSE /\ \E p \in FreePorts : ports' = ports \cup {p} /\ addPort' = p
            /\ addPC' = "uuid"
            /\ UNCHANGED <<addErr, addRet>>
  /\ UNCHANGED <<torrents, torrentsByInfoHash, resumeDB, tobj, addFn, addOpt,
                 addIH, addID, nAdds, torrentsBefore, portsBefore>>
  /\ sessUnchanged

\* add: u1, err := uuid.NewV1(); on error the closure deferred by add
\* releases the port.
AddUUID(ok) ==
  /\ addPC = "uuid"
  /\ IF ok
       THEN /\ addID' = nAdds
            /\ addPC' = "storage"
            /\ UNCHANGED <<ports, addErr, addRet>>
       ELSE /\ ReturnError("uuid error")
            /\ ports' = releasePort(ports, addPort)
            /\ UNCHANGED addID
  /\ UNCHANGED <<torrents, torrentsByInfoHash, resumeDB, tobj, addFn, addOpt,
                 addIH, addPort, nAdds, torrentsBefore, portsBefore>>
  /\ sessUnchanged

\* add: sto, err = filestorage.New(dest)
AddStorage(ok) ==
  /\ addPC = "storage"
  /\ IF ok
       THEN /\ addPC' = "newTorrent2"
            /\ UNCHANGED <<ports, addErr, addRet>>
       ELSE /\ ReturnError("storage error")
            /\ ports' = releasePort(ports, addPort)
  /\ UNCHANGED <<torrents, torrentsByInfoHash, resumeDB, tobj, addFn, addOpt,
                 addIH, addID, addPort, nAdds, torrentsBefore, portsBefore>>
  /\ sessUnchanged


\* t, err := newTorrent2(...); on error the closure deferred after s.add()
\* releases the port.  On success: go s.checkTorrent(t).
AddNewTorrent2(ok) ==
  /\ addPC = "newTorrent2"
  /\ IF ok
       THEN /\ tobj' = tobj @@ (addID :> [port |-> addPort, infoHash |-> addIH,
                                          closed |-> FALSE, starts |-> 0,
                                          checking |-> TRUE])
            /\ addPC' = "resumerWrite"
            /\ UNCHANGED <<ports, addErr, addRet>>
       ELSE /\ ReturnError("newTorrent2 error")
            /\ ports' = releasePort(ports, addPort)
            /\ UNCHANGED tobj
  /\ UNCHANGED <<torrents, torrentsByInfoHash, resumeDB, addFn, addOpt, addIH,
                 addID, addPort, nAdds, torrentsBefore, portsBefore>>
  /\ sessUnchanged

\* err = s.resumer.Write(id, rspec) with the error check left out.
AddResumerWriteUnchecked(ok) ==
  /\ addPC = "resumerWrite"
  /\ resumeDB' = IF ok THEN resumeDB \cup {addID} ELSE resumeDB
  /\ addPC' = "insertTorrent"
  /\ UNCHANGED <<ports, tobj, addErr, addRet>>
  /\ UNCHANGED <<torrents, torrentsByInfoHash, addFn, addOpt, addIH, addID,
                 addPort, nAdds, torrentsBefore, portsBefore>>
  /\ sessUnchanged

\* err = s.resumer.Write(id, rspec); on error both deferred closures run:
\* t.Close() and s.releasePort(port).
AddResumerWrite(ok) ==
  /\ addPC = "resumerWrite"
  /\ IF ok
       THEN /\ resumeDB' = resumeDB \cup {addID}
            /\ addPC' = "insertTorrent"
            /\ UNCHANGED <<ports, tobj, addErr, addRet>>
       ELSE /\ ReturnError("resumer.Write error")
            /\ tobj' = Close(tobj, addID)
            /\ ports' = releasePort(ports, addPort)
            /\ UNCHANGED resumeDB
  /\ UNCHANGED <<torrents, torrentsByInfoHash, addFn, addOpt, addIH, addID,
                 addPort, nAdds, torrentsBefore, portsBefore>>
  /\ sessUnchanged

\* t2 := s.insertTorrent(t).  addTorrentStopped then returns t2, nil to
\* AddTorrent; addMagnet goes on to its own check of opt.
AddInsertTorrent ==
  /\ addPC = "insertTorrent"
  /\ torrents' = torrents \cup {addID}
  /\ torrentsByInfoHash' =
       [torrentsByInfoHash EXCEPT ![addIH] = Append(@, addID)]
  /\ addPC' = "start"
  /\ UNCHANGED <<ports, resumeDB, tobj, addFn, addOpt, addIH, addID, addPort,
                 addErr, addRet, nAdds, torrentsBefore, portsBefore>>
  /\ sessUnchanged

\* if opt == nil || !opt.Stopped { err = t.Start() }; return t, err.
\* In addMagnet the two deferred closures see this err; in AddTorrent the
\* closures of addTorrentStopped have already run, with err == nil.
AddStartAndReturn(ok) ==
  /\ addPC = "start"
  /\ LET started == ShouldStart(addOpt)
         e == IF started /\ ~ok THEN "Start error" ELSE NoErr
         objs == IF started THEN [tobj EXCEPT ![addID].starts = @ + 1] ELSE tobj
         deferred == addFn = "addMagnet" /\ e # NoErr
     IN /\ tobj' = IF deferred THEN Close(objs, addID) ELSE objs
        /\ ports' = IF deferred THEN releasePort(ports, addPort) ELSE ports
        /\ addErr' = e
        /\ addRet' = [t |-> addID, err |-> e]
  /\ addPC' = "returned"
  /\ UNCHANGED <<torrents, torrentsByInfoHash, resumeDB, addFn, addOpt, addIH,
                 addID, addPort, nAdds, torrentsBefore, portsBefore>>
  /\ sessUnchanged

NextSession ==
  \/ \E fn \in AddFns, opt \in AddOpts, ih \in AddHashes : AddCall(fn, opt, ih)
  \/ \E ok \in BOOLEAN : AddParse(ok)
  \/ AddGetPort
  \/ \E ok \in BOOLEAN : AddUUID(ok)
  \/ \E ok \in BOOLEAN : AddStorage(ok)
  \/ \E ok \in BOOLEAN : AddNewTorrent2(ok)
  \/ \E ok \in BOOLEAN : AddResumerWrite(ok)
  \/ AddInsertTorrent
  \/ \E ok \in BOOLEAN : AddStartAndReturn(ok)

InitSessionOnly ==
  /\ InitSession
  /\ InitLoop
  /\ InitHSIdle
  /\ InitConnIdle
  /\ InitDownloadIdle

SpecSession == InitSessionOnly /\ [][NextSession]_vars

SessionTypeOK ==
  /\ ports \subseteq Ports
  /\ torrents \subseteq DOMAIN tobj
  /\ addPC \in {"idle", "parse", "getPort", "uuid", "storage", "newTorrent2",
                "resumerWrite", "insertTorrent", "start", "returned"}


(***************************************************************************)
(* Claims about the add operations.                                        *)
(***************************************************************************)
\* The ids the registry lists under some info hash.
IDsByInfoHash ==
  {torrentsByInfoHash[h][k] : <<h, k>> \in
     {hk \in AddHashes \X (1..MaxAdds + 1) : hk[2] <= Len(torrentsByInfoHash[hk[1]])}}

\* The errors of the steps before insertTorrent.
StepErrors == {"no free port", "uuid error", "storage error",
               "newTorrent2 error", "resumer.Write error"}

\* Every failure of a step before insertTorrent leaves the registry and the
\* allocator as they were when the operation was called.
AddStepFailureIsClean ==
  (addPC = "returned" /\ addRet.err \in StepErrors \cup {"parse error"}) =>
    /\ addRet.t = NoID
    /\ torrents = torrentsBefore
    /\ IDsByInfoHash = torrentsBefore
    /\ ports = portsBefore

\* C12: adding is all-or-nothing: an add operation that has returned either
\* failed and left the registry and the allocator as they were, or it
\* registered the new torrent and that torrent holds its port.
C12_AddAllOrNothing ==
  addPC = "returned" =>
    \/ /\ addRet.err # NoErr
       /\ torrents = torrentsBefore
       /\ ports = portsBefore
    \/ /\ addID \in torrents
       /\ addID \notin torrentsBefore
       /\ tobj[addID].port \in ports

\* C13: Start is invoked once on the new torrent when opt is nil or
\* opt.Stopped is false, not at all when opt.Stopped is true, and never on
\* a torrent that is not in the registry (adding failed, or not yet
\* inserted).
C13_StartOption ==
  /\ \A id \in DOMAIN tobj : id \notin torrents => tobj[id].starts = 0
  /\ \A id \in DOMAIN tobj : tobj[id].starts <= 1
  /\ (addPC = "returned" /\ addID \in torrents) =>
       tobj[addID].starts = (IF addOpt = "Stopped" THEN 0 ELSE 1)

C13_Witness ==
  /\ addPC = "returned"
  /\ addOpt = "nil"
  /\ addRet.err = NoErr
  /\ addID \in torrents
  /\ tobj[addID].starts = 1

\* C19: every torrent in the registry (torrents and torrentsByInfoHash) has
\* its resume record written; a torrent whose resume write failed is closed
\* and not inserted.
C19_ResumeWrittenBeforeInsert ==
  /\ torrents \subseteq resumeDB
  /\ IDsByInfoHash \subseteq resumeDB
  /\ \A id \in DOMAIN tobj :
       (id \notin resumeDB /\ (id # addID \/ addPC = "returned")) =>
         /\ tobj[id].closed
         /\ id \notin torrents
         /\ id \notin IDsByInfoHash

C19_Witness ==
  /\ addPC = "returned"
  /\ addErr = "resumer.Write error"
  /\ tobj[addID].closed
  /\ torrents # {}


(***************************************************************************)
(* Claims about the suspension of the intakes and about error results.     *)
(***************************************************************************)
\* A writer spawned by handleWebseedPieceResult is running, or has finished
\* and its result has not been handled yet.
WebseedWriterOutstanding ==
  \/ \E k \in 1..Len(pieceWriters) : pieceWriters[k].Source \in URLs
  \/ \E k \in 1..Len(pieceWriterResultC) : pieceWriterResultC[k].Source \in URLs

\* This step is a call of handleWebseedPieceResult by the loop.
HandlerExecutes ==
  /\ webseedPieceResultC # <<>>
  /\ webseedPieceResultC' = Tail(webseedPieceResultC)

\* C14: while a writer spawned by handleWebseedPieceResult is outstanding
\* both intakes are suspended; the handler is never executed while any piece
\* is Writing; the loop never panics.
C14_PanicUnreachable ==
  /\ [](WebseedWriterOutstanding => (pieceMessagesSusp /\ webseedResultSusp))
  /\ [][HandlerExecutes => \A i \in Pieces : ~pieces[i].Writing]_vars
  /\ []~panicked

\* C14 witness: the writer spawned for a webseed result has finished, its
\* result is not handled yet, and a successful result for the same piece
\* waits in the suspended webseed intake.
C14_Witness ==
  /\ pieceWriters = <<>>
  /\ pieceWriterResultC # <<>>
  /\ Head(pieceWriterResultC).Source \in URLs
  /\ pieces[Head(pieceWriterResultC).Index].Writing
  /\ webseedResultSusp
  /\ \E k \in 1..Len(webseedPieceResultC) :
       /\ webseedPieceResultC[k].Index = Head(pieceWriterResultC).Index
       /\ webseedPieceResultC[k].Error = ErrNil

\* C15: handling a webseed piece result that carries an error changes
\* neither the pieces' Writing flags, bytesDownloaded, the speed meter nor
\* the suspension of the two intakes, and spawns no writer.
C15_ErrorResultChangesNothing ==
  [][(HandlerExecutes /\ Head(webseedPieceResultC).Error # ErrNil)
     => (/\ pieces' = pieces
         /\ bytesDownloaded' = bytesDownloaded
         /\ downloadSpeed' = downloadSpeed
         /\ pieceMessagesSusp' = pieceMessagesSusp
         /\ webseedResultSusp' = webseedResultSusp
         /\ pieceWriters' = pieceWriters
         /\ pieceWriterResultC' = pieceWriterResultC
         /\ panicked' = panicked)]_vars

\* C15 witness: the handler has handled an error result for a piece that
\* was being written, with both intakes suspended.
C15_Witness ==
  /\ HandledWebseedError
  /\ last.wasWriting
  /\ pieceMessagesSusp
  /\ webseedResultSusp
  /\ pieceWriters # <<>>


(***************************************************************************)
(* Claims about servePeerConn.                                             *)
(***************************************************************************)
\* The peer's stream carries pstrlen 19, the protocol string, the reserved
\* bytes and an info_hash.
ValidToInfoHash ==
  /\ Len(peerStream) >= InfoHashEnd
  /\ peerStream[1] = bitTorrent10pstrLen
  /\ SubSeq(peerStream, 2, PstrEnd) = bitTorrent10pstr

\* C16: on an inbound connection on which the reader read a complete valid
\* handshake without error and our write did not fail, servePeerConn has
\* sent our handshake and entered communicateWithPeer when it returns.
C16_ValidPeerServed ==
  (/\ connDir = "in"
   /\ mainPC = "done"
   /\ readerPC = "done"
   /\ readerErr = NoErr
   /\ ValidToInfoHash /\ Len(peerStream) = PeerIDEnd
   /\ ~(sends = 1 /\ wireOut = <<>>))
  => (wireOut # <<>> /\ communicating)

\* C17: on an inbound connection our handshake is sent at most once, only
\* after readHandShake validated pstrlen and pstr and read the info_hash,
\* only to a peer whose pstrlen and pstr are valid, and it carries the
\* info_hash the peer sent.
C17_ReplyAfterValidInfoHash ==
  connDir = "in" =>
    /\ sends <= 1
    /\ Len(wireOut) \in {0, PeerIDEnd}
    /\ (sends = 1 \/ mainPC = "send") =>
         /\ readerPC \in {"peerID", "sendErr", "closeErrC", "done"}
         /\ ValidToInfoHash
         /\ selInfoHash = SubSeq(peerStream, ReservedEnd + 1, InfoHashEnd)
    /\ wireOut # <<>> =>
         SubSeq(wireOut, ReservedEnd + 1, InfoHashEnd)
           = SubSeq(peerStream, ReservedEnd + 1, InfoHashEnd)

\* C17 witness: our handshake is on the wire while the reader still waits
\* for the peer_id of a peer that sends it only after our handshake.
C17_Witness ==
  /\ connDir = "in"
  /\ peerHold
  /\ sends = 1
  /\ wireOut # <<>>
  /\ readerPC = "peerID"
  /\ peerID = <<>>

\* The reader goroutine is not yet at its end.
ReaderRunning == readerPC \in {"read", "peerID", "sendErr", "closeErrC"}

\* C18: the reader's sends find room in infoHashC and errC, the reader can
\* always take its next step and terminates, servePeerConn returns (so the
\* receive err = <-errC completes), and the connection is closed when it
\* has returned.
C18_NoDeadlockNoLeak ==
  /\ [](connDir = "in" =>
          /\ Len(infoHashC) <= 1 /\ Len(errC) <= 1
          /\ readerPC = "read" => infoHashC = <<>>
          /\ readerPC = "sendErr" => errC = <<>>
          /\ ReaderRunning => ENABLED ReaderStep
          /\ readerPC = "done" => errCClosed
          /\ mainPC = "done" => conn = "closed")
  /\ (connDir = "in") ~> (mainPC = "done" /\ ~ReaderRunning)

\* C18 witness: servePeerConn returned after its write failed, the reader
\* then got the error of the closed connection, put it into errC where no
\* one receives it, and ended.
C18_Witness ==
  /\ connDir = "in"
  /\ mainPC = "done"
  /\ sends = 1 /\ wireOut = <<>>
  /\ readerPC = "done"
  /\ readerErr = "closed"
  /\ errC = <<"closed">>

=============================================================================
